---- MODULE Spec2Model ----
(***************************************************************************)
(* Event-to-tree assembly of yolol-devices-yaml-deserializer (src/lib.rs). *)
(* YamlDocument::new pulls libyaml events through a peekable iterator and  *)
(* builds a forest of YamlElement nodes plus an anchor table.  The         *)
(* recursion of new / sequence / map is modelled with an explicit stack of *)
(* frames; one step of the model is one iteration of the `while let        *)
(* Some(Ok(i)) = iter.peek()` loop of the function on top of the stack.    *)
(***************************************************************************)
EXTENDS Integers, Sequences, FiniteSets, TLC

\* ---------------------------------------------------------------- bounds
MaxEvents == 5      \* events a source yields after its script
MaxDepth == 2       \* containers open at the same time
Values == {"k", "v"}
AnchorIds == {"A"}
Tags == {"t"}

\* ------------------------------------------------------- Option<String>
None == << >>
Some(x) == << x >>

\* ---------------------------------------------------------- YamlElement
Scalar(value, tag) == [kind |-> "Scalar", value |-> value, tag |-> tag]

Map(map, tag) == [kind |-> "Map", map |-> map, tag |-> tag]

Set(set, tag) == [kind |-> "Set", set |-> set, tag |-> tag]

Alias(id) == [kind |-> "Alias", alias |-> id]

YamlNone == [kind |-> "None"]

\* BTreeMap::new and BTreeMap::insert (YamlMap and the anchor table)
EmptyMap == [k \in {} |-> YamlNone]

\* faulty variant of Insert: an existing entry is kept
Insert_KeepFirst(m, k, v) == [x \in (DOMAIN m) \cup {k} |-> IF x \in DOMAIN m THEN m[x] ELSE v]

Insert(m, k, v) == [x \in (DOMAIN m) \cup {k} |-> IF x = k THEN v ELSE m[x]]

\* ---------------------------------------------------------- libyaml::Event
EvPlain(type) == [type |-> type, value |-> "", anchor |-> None, tag |-> None]

EvScalar(value, a, t) == [type |-> "Scalar", value |-> value, anchor |-> a, tag |-> t]

EvStart(type, a, t) == [type |-> type, value |-> "", anchor |-> a, tag |-> t]

EvAlias(id) == [type |-> "Alias", value |-> "", anchor |-> Some(id), tag |-> None]

PlainTypes == {"StreamStart", "StreamEnd", "DocumentStart", "DocumentEnd", "SequenceEnd", "MappingEnd"}

Scalars(values, anchors, tags) ==
    {EvScalar(v, a, t) : v \in values, a \in anchors, t \in tags}

Starts(types, anchors, tags) ==
    {EvStart(s, a, t) : s \in types, a \in anchors, t \in tags}

\* What one event source emits: every stream/document boundary and container
\* end, every alias, and the given scalars and container starts.
Vocabulary(scalars, starts) ==
    {EvPlain(t) : t \in PlainTypes} \cup {EvAlias(id) : id \in AnchorIds}
    \cup scalars \cup starts

\* End-to-end scenario A of the specification.
ScenarioA ==
    << EvPlain("StreamStart"), EvPlain("DocumentStart"),
       EvStart("MappingStart", None, None),
       EvScalar("k", None, None), EvScalar("v", None, None),
       EvPlain("MappingEnd"), EvPlain("DocumentEnd"), EvPlain("StreamEnd") >>

\* A first document holding a sequence with one scalar anchored A, and the
\* start of a second document.
FirstDocument ==
    << EvPlain("DocumentStart"),
       EvStart("SequenceStart", None, None), EvScalar("k", Some("A"), None),
       EvPlain("SequenceEnd"),
       EvPlain("DocumentEnd"), EvPlain("DocumentStart") >>

\* An event source first replays its script, then emits any events of its
\* vocabulary, MaxEvents of them at most.
From(script, vocab) == [script |-> script, vocab |-> vocab]

Anchored == {Some(id) : id \in AnchorIds}

Tagged == {Some(t) : t \in Tags}

PlainMaps ==
    Vocabulary(Scalars(Values, {None}, {None}), Starts({"MappingStart"}, {None}, {None}))

PlainNested ==
    Vocabulary(Scalars({"k"}, {None}, {None}),
               Starts({"SequenceStart", "MappingStart"}, {None}, {None}))

AnchoredSequences ==
    Vocabulary(Scalars(Values, Anchored, {None}), Starts({"SequenceStart"}, Anchored, {None}))

AnchoredMaps ==
    Vocabulary(Scalars({"k"}, Anchored, {None}), Starts({"MappingStart"}, Anchored, {None}))

TaggedNested ==
    Vocabulary(Scalars({"k"}, Anchored, Tagged),
               Starts({"SequenceStart", "MappingStart"}, {None}, Tagged))

\* a second document: sequences of aliases
AliasSequences == Vocabulary({}, Starts({"SequenceStart"}, {None}, {None}))

\* The event sources explored.
Sources ==
    { From(<< >>, PlainMaps),
      From(<< >>, PlainNested),
      From(<< >>, AnchoredSequences),
      From(<< >>, AnchoredMaps),
      From(<< >>, TaggedNested),
      From(<< EvStart("MappingStart", None, None),
              EvScalar("k", None, None), EvScalar("v", None, None) >>, PlainMaps),
      From(<< EvStart("SequenceStart", None, None) >>, PlainNested),
      From(<< EvStart("SequenceStart", None, None) >>, AnchoredSequences),
      From(FirstDocument, AliasSequences),
      From(ScenarioA, {}) }

VARIABLES
    source,     \* this run's event source: its script and its vocabulary
    events,     \* what the event source has yielded so far (peeked or consumed)
    pos,        \* number of events consumed with iter.next()
    stack,      \* open sequence()/map() calls, innermost last
    root,       \* s.root
    anchor,     \* s.anchor
    result,     \* "running", "Some" (a Document), "None", "panic"
    registered, \* history: every self.anchor.insert call, in call order
    built,      \* history: the last Map node built, the keys read and insert calls made
                \* for it, is_key at its mapping-end event and the index of that event
    asked,      \* the node last passed to resolve_alias
    resolved,   \* what that call returned
    call        \* the last accessor call on a node: its arguments and what it returned

vars == <<source, events, pos, stack, root, anchor, result, registered, built, asked, resolved, call>>

\* What iter.peek() may show: the event already peeked and not yet consumed,
\* else the events the source may yield next, within the bounds.
Source ==
    IF Len(events) > pos
    THEN {events[pos + 1]}
    ELSE IF Len(events) < Len(source.script)
    THEN {source.script[Len(events) + 1]}
    ELSE {e \in source.vocab :
            /\ Len(events) < Len(source.script) + MaxEvents
            /\ e.type \in {"SequenceStart", "MappingStart"} => Len(stack) < MaxDepth}

Init ==
    /\ source \in Sources
    /\ events = << >>
    /\ pos = 0
    /\ stack = << >>
    /\ root = << >>
    /\ anchor = EmptyMap
    /\ result = "running"
    /\ registered = << >>
    /\ built = [node |-> YamlNone, keys |-> << >>, inserts |-> << >>, is_key |-> TRUE, at |-> 0]
    /\ asked = YamlNone
    /\ resolved = None
    /\ call = [fn |-> "none"]

\* ------------------------------------------------------------ frames
\* el, root, map, is_key, key are the locals of sequence() and map(); keys and
\* inserts are history: the keys map() has read and its map.insert calls.
SequenceFrame(el) == [fn |-> "sequence", el |-> el, root |-> << >>,
                      map |-> EmptyMap, is_key |-> TRUE, key |-> None,
                      keys |-> << >>, inserts |-> << >>]

MapFrame(el) == [fn |-> "map", el |-> el, root |-> << >>,
                 map |-> EmptyMap, is_key |-> TRUE, key |-> None,
                 keys |-> << >>, inserts |-> << >>]

Top == stack[Len(stack)]

InNew == result = "running" /\ stack = << >>

InSequence == result = "running" /\ stack # << >> /\ Top.fn = "sequence"

InMap == result = "running" /\ stack # << >> /\ Top.fn = "map"

Peek(e) ==
    /\ events' = IF Len(events) > pos THEN events ELSE Append(events, e)
    /\ UNCHANGED <<source, asked, resolved, call>>

\* faulty variant of Register: the anchor is never stored
Register_Forgotten(a, node) == UNCHANGED <<anchor, registered>>

\* self.anchor.insert(anchor, node) when the event carries an anchor
Register(a, node) ==
    IF a # None
    THEN /\ anchor' = Insert(anchor, a[1], node)
         /\ registered' = Append(registered, [id |-> a[1], node |-> node, at |-> pos + 1])
    ELSE UNCHANGED <<anchor, registered>>

\* faulty variant of PushFrame: the node is put in front
PushFrame_Prepend(f, node) == [f EXCEPT !.root = << node >> \o @]

\* root.push(node) in sequence()
PushFrame(f, node) == [f EXCEPT !.root = Append(@, node)]

\* the history entry of one map.insert call: was_key tells whether the builder
\* was expecting a key when the inserted node's first event arrived
Inserted(f, node) == [key |-> f.key[1], node |-> node, was_key |-> f.is_key]

\* faulty variant of InsertFrame: the entry is not stored
InsertFrame_Lost(f, node) ==
    [f EXCEPT !.is_key = TRUE, !.inserts = Append(@, Inserted(f, node))]

\* faulty variant of InsertFrame: the first value of a key is kept
InsertFrame_IfAbsent(f, node) ==
    [f EXCEPT !.map = IF f.key[1] \in DOMAIN @ THEN @ ELSE Insert(@, f.key[1], node),
              !.is_key = TRUE,
              !.inserts = Append(@, Inserted(f, node))]

\* map.insert(key, node); is_key = true in map()
InsertFrame(f, node) ==
    [f EXCEPT !.map = Insert(@, f.key[1], node),
              !.is_key = TRUE,
              !.inserts = Append(@, Inserted(f, node))]

\* new() ends: return Some(s) on stream-end, unreachable!() on an event that
\* has no arm; the running sequence()/map() calls are unwound
Finish(r) ==
    /\ result' = r
    /\ stack' = << >>
    /\ UNCHANGED <<pos, root, anchor, registered, built>>

\* faulty variant of Return: the caller leaves the end event in the stream
Return_EndLeft(node) ==
    LET rest == SubSeq(stack, 1, Len(stack) - 1) IN
    /\ pos' = pos
    /\ IF rest = << >>
       THEN /\ root' = Append(root, node)
            /\ stack' = rest
       ELSE LET parent == rest[Len(rest)] IN
            /\ root' = root
            /\ stack' = [rest EXCEPT ![Len(rest)] =
                            IF parent.fn = "sequence"
                            THEN PushFrame(parent, node)
                            ELSE InsertFrame(parent, node)]

\* A sequence()/map() call returns `node` to its caller, which stores it and
\* consumes the end event with iter.next().
Return(node) ==
    LET rest == SubSeq(stack, 1, Len(stack) - 1) IN
    /\ pos' = pos + 1
    /\ IF rest = << >>
       THEN /\ root' = Append(root, node)
            /\ stack' = rest
       ELSE LET parent == rest[Len(rest)] IN
            /\ root' = root
            /\ stack' = [rest EXCEPT ![Len(rest)] =
                            IF parent.fn = "sequence"
                            THEN PushFrame(parent, node)
                            ELSE InsertFrame(parent, node)]

\* faulty variant of Call: the anchor of the start event is registered on
\* entry, for the container still empty
Call_RegisterEarly(frame) ==
    /\ pos' = pos + 1
    /\ stack' = Append(stack, frame)
    /\ Register(frame.el.anchor,
                IF frame.fn = "sequence" THEN Set(<< >>, frame.el.tag)
                                         ELSE Map(EmptyMap, frame.el.tag))
    /\ UNCHANGED <<root, result, built>>

\* A sequence()/map() call is entered: its iter.next() consumes the start event.
Call(frame) ==
    /\ pos' = pos + 1
    /\ stack' = Append(stack, frame)
    /\ UNCHANGED <<root, anchor, result, registered, built>>

\* faulty variant of NewBoundary: the boundary event is not consumed
NewBoundary_NoNext(e) ==
    /\ InNew
    /\ e.type \in {"StreamStart", "DocumentStart", "DocumentEnd"}
    /\ Peek(e)
    /\ UNCHANGED <<pos, stack, root, anchor, result, registered, built>>

\* -------------------------------------------------- YamlDocument::new
NewBoundary(e) ==
    /\ InNew
    /\ e.type \in {"StreamStart", "DocumentStart", "DocumentEnd"}
    /\ Peek(e)
    /\ pos' = pos + 1
    /\ UNCHANGED <<stack, root, anchor, result, registered, built>>

NewMappingStart(e) ==
    /\ InNew
    /\ e.type = "MappingStart"
    /\ Peek(e)
    /\ Call(MapFrame(e))

NewSequenceStart(e) ==
    /\ InNew
    /\ e.type = "SequenceStart"
    /\ Peek(e)
    /\ Call(SequenceFrame(e))

NewStreamEnd(e) ==
    /\ InNew
    /\ e.type = "StreamEnd"
    /\ Peek(e)
    /\ Finish("Some")

\* faulty variant of NewUnreachable: the event is skipped like a boundary event
NewUnreachable_Skipped(e) ==
    /\ InNew
    /\ e.type \in {"Scalar", "Alias", "SequenceEnd", "MappingEnd"}
    /\ Peek(e)
    /\ pos' = pos + 1
    /\ UNCHANGED <<stack, root, anchor, result, registered, built>>

NewUnreachable(e) ==
    /\ InNew
    /\ e.type \in {"Scalar", "Alias", "SequenceEnd", "MappingEnd"}
    /\ Peek(e)
    /\ Finish("panic")

\* faulty variant of AliasNode: a registered alias is replaced by its referent
AliasNode_Eager(e) ==
    IF e.anchor[1] \in DOMAIN anchor THEN anchor[e.anchor[1]] ELSE Alias(e.anchor[1])

\* Box::new(YamlElement::Alias(anchor.clone())) for an alias event
AliasNode(e) == Alias(e.anchor[1])

\* ---------------------------------------------- YamlDocument::sequence
SequenceScalar(e) ==
    /\ InSequence
    /\ e.type = "Scalar"
    /\ Peek(e)
    /\ Register(e.anchor, Scalar(e.value, e.tag))
    /\ stack' = [stack EXCEPT ![Len(stack)] = PushFrame(@, Scalar(e.value, e.tag))]
    /\ pos' = pos + 1
    /\ UNCHANGED <<root, result, built>>

SequenceSequenceStart(e) ==
    /\ InSequence
    /\ e.type = "SequenceStart"
    /\ Peek(e)
    /\ Call(SequenceFrame(e))

SequenceMappingStart(e) ==
    /\ InSequence
    /\ e.type = "MappingStart"
    /\ Peek(e)
    /\ Call(MapFrame(e))

\* faulty variant of SequenceAlias: the placeholder is registered under its
\* own identifier
SequenceAlias_Registers(e) ==
    /\ InSequence
    /\ e.type = "Alias"
    /\ Peek(e)
    /\ Register(e.anchor, AliasNode(e))
    /\ stack' = [stack EXCEPT ![Len(stack)] = PushFrame(@, AliasNode(e))]
    /\ pos' = pos + 1
    /\ UNCHANGED <<root, result, built>>

SequenceAlias(e) ==
    /\ InSequence
    /\ e.type = "Alias"
    /\ Peek(e)
    /\ stack' = [stack EXCEPT ![Len(stack)] = PushFrame(@, AliasNode(e))]
    /\ pos' = pos + 1
    /\ UNCHANGED <<root, anchor, result, registered, built>>

\* faulty variant of SequenceEnd: a sequence without elements yields the
\* None node
SequenceEnd_Empty(e) ==
    LET node == IF Top.root = << >> THEN YamlNone ELSE Set(Top.root, Top.el.tag) IN
    /\ InSequence
    /\ e.type = "SequenceEnd"
    /\ Peek(e)
    /\ Register(Top.el.anchor, node)
    /\ Return(node)
    /\ UNCHANGED <<result, built>>

SequenceEnd(e) ==
    /\ InSequence
    /\ e.type = "SequenceEnd"
    /\ Peek(e)
    /\ Register(Top.el.anchor, Set(Top.root, Top.el.tag))
    /\ Return(Set(Top.root, Top.el.tag))
    /\ UNCHANGED <<result, built>>

SequenceUnreachable(e) ==
    /\ InSequence
    /\ e.type \in {"StreamStart", "StreamEnd", "DocumentStart", "DocumentEnd", "MappingEnd"}
    /\ Peek(e)
    /\ Finish("panic")

\* --------------------------------------------------- YamlDocument::map
MapScalarKey(e) ==
    /\ InMap
    /\ e.type = "Scalar"
    /\ Top.is_key
    /\ Peek(e)
    /\ Register(e.anchor, Scalar(e.value, e.tag))
    /\ stack' = [stack EXCEPT ![Len(stack)].key = Some(e.value),
                              ![Len(stack)].is_key = FALSE,
                              ![Len(stack)].keys = Append(@, e.value)]
    /\ pos' = pos + 1
    /\ UNCHANGED <<root, result, built>>

MapScalarValue(e) ==
    /\ InMap
    /\ e.type = "Scalar"
    /\ ~Top.is_key
    /\ Top.key # None
    /\ Peek(e)
    /\ Register(e.anchor, Scalar(e.value, e.tag))
    /\ stack' = [stack EXCEPT ![Len(stack)] = InsertFrame(@, Scalar(e.value, e.tag))]
    /\ pos' = pos + 1
    /\ UNCHANGED <<root, result, built>>

MapMappingStart(e) ==
    /\ InMap
    /\ e.type = "MappingStart"
    /\ Top.key # None
    /\ Peek(e)
    /\ Call(MapFrame(e))

MapSequenceStart(e) ==
    /\ InMap
    /\ e.type = "SequenceStart"
    /\ Top.key # None
    /\ Peek(e)
    /\ Call(SequenceFrame(e))

MapAlias(e) ==
    /\ InMap
    /\ e.type = "Alias"
    /\ Top.key # None
    /\ Peek(e)
    /\ stack' = [stack EXCEPT ![Len(stack)] = InsertFrame(@, AliasNode(e))]
    /\ pos' = pos + 1
    /\ UNCHANGED <<root, anchor, result, registered, built>>

\* key.clone()? with key == None: map() returns None and `?` unwinds every caller
MapMissingKey(e) ==
    /\ InMap
    /\ e.type \in {"MappingStart", "SequenceStart", "Alias"}
    /\ Top.key = None
    /\ Peek(e)
    /\ result' = "None"
    /\ stack' = << >>
    /\ UNCHANGED <<pos, root, anchor, registered, built>>

MapEnd(e) ==
    /\ InMap
    /\ e.type = "MappingEnd"
    /\ Peek(e)
    /\ Register(Top.el.anchor, Map(Top.map, Top.el.tag))
    /\ built' = [node |-> Map(Top.map, Top.el.tag), keys |-> Top.keys,
                 inserts |-> Top.inserts, is_key |-> Top.is_key, at |-> pos + 1]
    /\ Return(Map(Top.map, Top.el.tag))
    /\ UNCHANGED result

MapUnreachable(e) ==
    /\ InMap
    /\ e.type \in {"StreamStart", "StreamEnd", "DocumentStart", "DocumentEnd", "SequenceEnd"}
    /\ Peek(e)
    /\ Finish("panic")

\* ------------------------------------------- the source stops or fails
\* iter.peek() is None (no more events) or Some(Err(_)): the loop of the
\* running function is left, it returns None and `?` unwinds every caller.
ErrEvent == [type |-> "Err", value |-> "", anchor |-> None, tag |-> None]

NoEvent == [type |-> "None", value |-> "", anchor |-> None, tag |-> None]

\* faulty variant of PeekFails: what was built so far is returned
PeekFails_Partial(err) ==
    /\ result = "running"
    /\ Len(events) = pos
    /\ Len(events) >= Len(source.script)
    /\ err => Len(events) < Len(source.script) + MaxEvents
    /\ events' = Append(events, IF err THEN ErrEvent ELSE NoEvent)
    /\ result' = "Some"
    /\ stack' = << >>
    /\ UNCHANGED <<source, pos, root, anchor, registered, built, asked, resolved, call>>

\* events records what peek returned: Err for Some(Err(_)), None for None
PeekFails(err) ==
    /\ result = "running"
    /\ Len(events) = pos
    /\ Len(events) >= Len(source.script)
    /\ err => Len(events) < Len(source.script) + MaxEvents
    /\ events' = Append(events, IF err THEN ErrEvent ELSE NoEvent)
    /\ result' = "None"
    /\ stack' = << >>
    /\ UNCHANGED <<source, pos, root, anchor, registered, built, asked, resolved, call>>

\* ------------------------------------- YamlDocument::resolve_alias
\* faulty variant of resolve_alias: a node that is no Alias resolves to itself
resolve_alias_Itself(alias) ==
    IF alias.kind = "Alias"
    THEN IF alias.alias \in DOMAIN anchor THEN Some(anchor[alias.alias]) ELSE None
    ELSE Some(alias)

resolve_alias(alias) ==
    IF alias.kind = "Alias" /\ alias.alias \in DOMAIN anchor
    THEN Some(anchor[alias.alias])
    ELSE None

RECURSIVE Nodes(_)

\* a node and every node nested in it
Nodes(node) ==
    {node} \cup
    (IF node.kind = "Set" THEN UNION {Nodes(node.set[i]) : i \in 1..Len(node.set)}
     ELSE IF node.kind = "Map" THEN UNION {Nodes(node.map[x]) : x \in DOMAIN node.map}
     ELSE {})

\* the nodes a caller of the finished Document can pass to resolve_alias
Askable ==
    UNION {Nodes(root[i]) : i \in 1..Len(root)}
    \cup {anchor[a] : a \in DOMAIN anchor}
    \cup {Alias(id) : id \in AnchorIds}
    \cup {YamlNone}

ResolveAlias(node) ==
    /\ result = "Some"
    /\ asked' = node
    /\ resolved' = resolve_alias(node)
    /\ UNCHANGED <<source, events, pos, stack, root, anchor, result, registered, built, call>>

\* ------------------------------------------------ YamlElement accessors
as_map(self) == IF self.kind = "Map" THEN Some(self.map) ELSE None

\* faulty variant of index_str: a node without the key is returned itself
index_str_Self(self, index) ==
    IF as_map(self) # None /\ index \in DOMAIN as_map(self)[1]
    THEN as_map(self)[1][index]
    ELSE self

\* impl Index<&str> for YamlElement
index_str(self, index) ==
    IF as_map(self) # None /\ index \in DOMAIN as_map(self)[1]
    THEN as_map(self)[1][index]
    ELSE YamlNone

\* impl Index<String> for YamlElement
index_String(self, index) ==
    IF as_map(self) # None /\ index \in DOMAIN as_map(self)[1]
    THEN as_map(self)[1][index]
    ELSE YamlNone

\* faulty variant of as_vec: the None node is not read as an empty sequence
as_vec_Strict(self) == IF self.kind = "Set" THEN Some(self.set) ELSE None

as_vec(self) ==
    IF self.kind = "Set" THEN Some(self.set)
    ELSE IF self = YamlNone THEN Some(<< >>)
    ELSE None

\* the keys a caller indexes with
Keys == {"k"}

\* node[key], in both forms, on a node of the finished Document
IndexCall(node, key) ==
    /\ result = "Some"
    /\ call' = [fn |-> "index", self |-> node, index |-> key,
                out_str |-> index_str(node, key), out_String |-> index_String(node, key)]
    /\ UNCHANGED <<source, events, pos, stack, root, anchor, result, registered, built,
                   asked, resolved>>

\* node.as_vec() on a node of the finished Document
AsVecCall(node) ==
    /\ result = "Some"
    /\ call' = [fn |-> "as_vec", self |-> node, out |-> as_vec(node)]
    /\ UNCHANGED <<source, events, pos, stack, root, anchor, result, registered, built,
                   asked, resolved>>

Next ==
    \/ \E e \in Source : NewBoundary(e)
    \/ \E e \in Source : NewMappingStart(e)
    \/ \E e \in Source : NewSequenceStart(e)
    \/ \E e \in Source : NewStreamEnd(e)
    \/ \E e \in Source : NewUnreachable(e)
    \/ \E e \in Source : SequenceScalar(e)
    \/ \E e \in Source : SequenceSequenceStart(e)
    \/ \E e \in Source : SequenceMappingStart(e)
    \/ \E e \in Source : SequenceAlias(e)
    \/ \E e \in Source : SequenceEnd(e)
    \/ \E e \in Source : SequenceUnreachable(e)
    \/ \E e \in Source : MapScalarKey(e)
    \/ \E e \in Source : MapScalarValue(e)
    \/ \E e \in Source : MapMappingStart(e)
    \/ \E e \in Source : MapSequenceStart(e)
    \/ \E e \in Source : MapAlias(e)
    \/ \E e \in Source : MapMissingKey(e)
    \/ \E e \in Source : MapEnd(e)
    \/ \E e \in Source : MapUnreachable(e)
    \/ \E err \in BOOLEAN : PeekFails(err)
    \/ \E node \in Askable : ResolveAlias(node)
    \/ \E node \in Askable, key \in Keys : IndexCall(node, key)
    \/ \E node \in Askable : AsVecCall(node)

Spec == Init /\ [][Next]_vars

\* one loop iteration of the build
Step == result = "running" /\ Next

\* YamlDocument::new runs on its own thread of control: an iteration that
\* can be made is made.
FairSpec == Spec /\ WF_vars(Step)

\* ------------------------------------------------------------------------
\* The shape an event sequence describes, read off the events alone.
\* st is "ok" (a complete item), "more" (the source stops inside the item) or
\* "bad" (an event that cannot stand where it is).
\* ------------------------------------------------------------------------
Bad == [st |-> "bad", node |-> YamlNone, nodes |-> << >>, next |-> 0]

More == [st |-> "more", node |-> YamlNone, nodes |-> << >>, next |-> 0]

Max(S) == CHOOSE x \in S : \A y \in S : y <= x

\* children k1 v1 k2 v2 ... of a mapping: each key maps to the value of its
\* last occurrence
PairsToMap(c) ==
    [key \in {c[2 * j - 1].value : j \in 1..(Len(c) \div 2)} |->
        c[2 * Max({j \in 1..(Len(c) \div 2) : c[2 * j - 1].value = key})]]

\* no event at index i: none yielded yet, or the source had no more events
Stops(ev, i) == i > Len(ev) \/ ev[i].type = "None"

RECURSIVE ShapeNode(_, _), ShapeItems(_, _, _, _)

\* the node that starts at ev[i]
ShapeNode(ev, i) ==
    IF Stops(ev, i) THEN More
    ELSE IF ev[i].type = "Scalar"
         THEN [st |-> "ok", node |-> Scalar(ev[i].value, ev[i].tag), nodes |-> << >>, next |-> i + 1]
    ELSE IF ev[i].type = "Alias"
         THEN [st |-> "ok", node |-> Alias(ev[i].anchor[1]), nodes |-> << >>, next |-> i + 1]
    ELSE IF ev[i].type = "SequenceStart"
         THEN LET r == ShapeItems(ev, i + 1, "SequenceEnd", 0) IN
              IF r.st = "ok"
              THEN [st |-> "ok", node |-> Set(r.nodes, ev[i].tag), nodes |-> << >>, next |-> r.next]
              ELSE r
    ELSE IF ev[i].type = "MappingStart"
         THEN LET r == ShapeItems(ev, i + 1, "MappingEnd", 0) IN
              IF r.st = "ok"
              THEN [st |-> "ok", node |-> Map(PairsToMap(r.nodes), ev[i].tag), nodes |-> << >>, next |-> r.next]
              ELSE r
    ELSE Bad

\* the children from ev[i] up to the container's end event; n children precede
ShapeItems(ev, i, end, n) ==
    IF Stops(ev, i) THEN More
    ELSE IF ev[i].type = end
         THEN IF end = "MappingEnd" /\ n % 2 = 1
              THEN Bad
              ELSE [st |-> "ok", node |-> YamlNone, nodes |-> << >>, next |-> i + 1]
    ELSE IF end = "MappingEnd" /\ n % 2 = 0 /\ ev[i].type # "Scalar"
         THEN Bad
    ELSE LET c == ShapeNode(ev, i) IN
         IF c.st # "ok" THEN c
         ELSE LET r == ShapeItems(ev, c.next, end, n + 1) IN
              IF r.st # "ok" THEN r
              ELSE [st |-> "ok", node |-> YamlNone, nodes |-> << c.node >> \o r.nodes, next |-> r.next]

RECURSIVE ShapeTop(_, _, _)

\* the top level from ev[i] on: boundaries and containers, closed by stream-end.
\* With leaves = TRUE a scalar or alias may also stand at top level.
ShapeTop(ev, i, leaves) ==
    IF Stops(ev, i) THEN More
    ELSE IF ev[i].type = "StreamEnd"
         THEN IF i = Len(ev)
              THEN [st |-> "ok", node |-> YamlNone, nodes |-> << >>, next |-> i + 1]
              ELSE Bad
    ELSE IF ev[i].type \in {"StreamStart", "DocumentStart", "DocumentEnd"}
         THEN ShapeTop(ev, i + 1, leaves)
    ELSE IF ev[i].type \in {"Scalar", "Alias"}
         THEN IF leaves THEN ShapeTop(ev, i + 1, leaves) ELSE Bad
    ELSE LET c == ShapeNode(ev, i) IN
         IF c.st # "ok" THEN c
         ELSE LET r == ShapeTop(ev, c.next, leaves) IN
              IF r.st # "ok" THEN r
              ELSE [st |-> "ok", node |-> YamlNone, nodes |-> << c.node >> \o r.nodes, next |-> r.next]

ReproducesShape(leaves) ==
    LET shape == ShapeTop(events, 1, leaves) IN
    /\ shape.st = "ok" => result = "Some" /\ root = shape.nodes
    /\ (shape.st = "more" /\ result # "running") =>
            (result = "None" /\ events[Len(events)].type = "None")

\* C1 as stated: for every event stream in which every container start has
\* its matching end and every map key is a scalar, new returns a Document
\* whose root is the list of the top-level containers' nodes, each of the
\* shape its events describe.
C1_Original == ReproducesShape(TRUE)

\* C1 amended: for every well-formed event stream whose top-level nodes are
\* all containers, new returns a Document whose root holds one node per
\* top-level container in stream order, each of the shape its events describe
\* (Map for mapping-start, Set for sequence-start with the elements in event
\* order, Scalar with the event's text and tag, Alias for an alias event); it
\* stops early on such a stream only when the source has no more events.
\* Scenario A yields the one-element root [{k: v}].
C1_ReproducesShape ==
    /\ ReproducesShape(FALSE)
    /\ events = ScenarioA =>
         root = << Map([x \in {"k"} |-> Scalar("v", None)], None) >>

RECURSIVE Depth(_)

Depth(node) ==
    IF node.kind = "Set"
    THEN 1 + Max({0} \cup {Depth(node.set[i]) : i \in 1..Len(node.set)})
    ELSE IF node.kind = "Map"
    THEN 1 + Max({0} \cup {Depth(node.map[x]) : x \in DOMAIN node.map})
    ELSE 0

\* a returned Document with a two-level container whose inner container has a sibling
C1_Witness ==
    /\ result = "Some"
    /\ ShapeTop(events, 1, FALSE).st = "ok"
    /\ \E i \in 1..Len(root) :
         /\ Depth(root[i]) = 2
         /\ root[i].kind = "Set"
         /\ Len(root[i].set) >= 2

\* ------------------------------------------------------------------------
\* Anchors, read off the events: event i completes a node anchored a when it
\* is a scalar event carrying a, or the end event of a container whose start
\* event carries a.
\* ------------------------------------------------------------------------
IsStart(e) == e.type \in {"SequenceStart", "MappingStart"}

IsEnd(e) == e.type \in {"SequenceEnd", "MappingEnd"}

CountIn(ev, lo, hi, P(_)) == Cardinality({i \in lo..hi : P(ev[i])})

\* the start event of the container that ev[e] closes
MatchingStart(ev, e) ==
    Max({s \in 1..(e - 1) :
            /\ IsStart(ev[s])
            /\ CountIn(ev, s + 1, e - 1, IsStart) = CountIn(ev, s + 1, e - 1, IsEnd)})

Completes(ev, i, a) ==
    \/ ev[i].type = "Scalar" /\ ev[i].anchor = Some(a)
    \/ IsEnd(ev[i]) /\ ev[MatchingStart(ev, i)].anchor = Some(a)

\* the events consumed so far that complete a node anchored a
Completions(a) == {i \in 1..pos : Completes(events, i, a)}

AliasAfterAnchoredScalar(i, j, a) ==
    /\ i < j
    /\ events[i].type = "Scalar" /\ events[i].anchor = Some(a)
    /\ events[j].type = "Alias" /\ events[j].anchor = Some(a)

\* C2 as stated: in a finished Document, for every scalar event anchored A
\* and every later alias event referencing A, resolve_alias of the alias
\* node returns a node equal to that scalar (text and tag).
C2_Original ==
    result = "Some" =>
        \A a \in AnchorIds : \A i, j \in 1..pos :
            AliasAfterAnchoredScalar(i, j, a) =>
                resolve_alias(Alias(a)) = Some(Scalar(events[i].value, events[i].tag))

\* C2 amended: the same, provided no node anchored A is completed after
\* that scalar (no later scalar event anchored A, no container anchored A
\* ending later).
C2_AliasResolvesToScalar ==
    result = "Some" =>
        \A a \in AnchorIds : \A i, j \in 1..pos :
            (AliasAfterAnchoredScalar(i, j, a) /\ i = Max(Completions(a))) =>
                resolve_alias(Alias(a)) = Some(Scalar(events[i].value, events[i].tag))

\* a finished Document with a scalar anchored A, a later alias to A, and an
\* earlier node that was also anchored A
C2_Witness ==
    /\ result = "Some"
    /\ \E a \in AnchorIds : \E i, j \in 1..pos :
         /\ AliasAfterAnchoredScalar(i, j, a)
         /\ i = Max(Completions(a))
         /\ Cardinality(Completions(a)) >= 2

\* C3: resolve_alias(Alias(A)) returns the node of the last registration of
\* A, absence when A was never registered; registrations happen in the order
\* in which nodes are completed, a scalar at its own event and a container
\* at its end event, each registering a node of the completed kind.
C3_LastRegistrationWins ==
    /\ \A a \in AnchorIds :
         LET regs == {n \in 1..Len(registered) : registered[n].id = a} IN
         resolve_alias(Alias(a)) =
            IF regs = {} THEN None ELSE Some(registered[Max(regs)].node)
    /\ {registered[n].at : n \in 1..Len(registered)} = UNION {Completions(a) : a \in AnchorIds}
    /\ \A n \in 1..Len(registered) :
         /\ Completes(events, registered[n].at, registered[n].id)
         /\ n > 1 => registered[n - 1].at < registered[n].at
         /\ registered[n].node.kind =
               (CASE events[registered[n].at].type = "Scalar" -> "Scalar"
                  [] events[registered[n].at].type = "SequenceEnd" -> "Set"
                  [] events[registered[n].at].type = "MappingEnd" -> "Map")

\* a finished Document in which a sequence anchored A contains a scalar also
\* anchored A
C3_Witness ==
    /\ result = "Some"
    /\ \E n, m \in 1..Len(registered) :
         /\ n < m
         /\ registered[n].id = registered[m].id
         /\ registered[n].node.kind = "Scalar"
         /\ registered[m].node.kind = "Set"
         /\ MatchingStart(events, registered[m].at) < registered[n].at
         /\ anchor[registered[m].id] = registered[m].node

\* the registrations of anchor a, as positions in the history
RegistrationsOf(a) == {n \in 1..Len(registered) : registered[n].id = a}

\* C4: resolve_alias never fails and looks up once: for an Alias whose
\* identifier is in the anchor table it returns exactly the table's entry,
\* nested Alias nodes included as they are; for an Alias whose identifier was
\* never registered it returns absence; for every node that is not an Alias
\* (also one equal to a registered node) it returns absence.
C4_ResolveAliasTotal ==
    /\ asked.kind = "Alias" =>
         /\ asked.alias \in DOMAIN anchor => resolved = Some(anchor[asked.alias])
         /\ RegistrationsOf(asked.alias) = {} => resolved = None
         /\ RegistrationsOf(asked.alias) # {} =>
              resolved = Some(registered[Max(RegistrationsOf(asked.alias))].node)
    /\ asked.kind # "Alias" => resolved = None
    /\ resolved # None => result = "Some"

\* resolve_alias has returned a snapshot that holds an Alias whose identifier
\* is itself registered
C4_Witness ==
    /\ asked.kind = "Alias"
    /\ resolved # None
    /\ \E n \in Nodes(resolved[1]) : n.kind = "Alias" /\ n.alias \in DOMAIN anchor

\* C5 as stated: a mapping-end event that arrives while the map builder is
\* expecting a key is rejected; no Map is built for that mapping.
C5_Original == built.node.kind = "Map" => ~built.is_key

\* C5 amended: a mapping-end event that arrives while the map builder is
\* expecting a key is the regular end of the mapping: the builder returns a
\* Map in which every key read so far has an entry, none is dropped.
C5_KeyPhaseEndBuildsMap ==
    (built.node.kind = "Map" /\ built.is_key) =>
        /\ DOMAIN built.node.map = {built.keys[n] : n \in 1..Len(built.keys)}
        /\ Len(built.inserts) >= Len(built.keys)
        /\ built.at <= pos

\* a returned Document with a map of two keys whose end came at a key position
C5_Witness ==
    /\ result = "Some"
    /\ built.node.kind = "Map"
    /\ built.is_key
    /\ Cardinality(DOMAIN built.node.map) = 2
    /\ \E i \in 1..Len(root) : built.node \in Nodes(root[i])

\* C6: a mapping-end event that arrives while the map builder is expecting
\* a value aborts the build; no Map is built that omits the pending key.
C6_Original == built.node.kind = "Map" => built.is_key

\* the insert calls made so far by every running map() and by the last map()
\* that returned
AllInserts ==
    {built.inserts[n] : n \in 1..Len(built.inserts)}
    \cup UNION {{stack[i].inserts[n] : n \in 1..Len(stack[i].inserts)} : i \in 1..Len(stack)}

\* C7: while the map builder is expecting a key, a mapping-start,
\* sequence-start or alias event never makes it insert or overwrite an entry.
C7_Original == \A ins \in AllInserts : ~ins.was_key

Last(seq) == seq[Len(seq)]

\* containers opened and not yet closed by the events consumed so far
OpenContainers == CountIn(events, 1, pos, IsStart) - CountIn(events, 1, pos, IsEnd)

\* C8: new returns a Document only when stream-end is peeked at top level;
\* when the source has no more events or yields an error first, at any
\* depth, new returns absence.
C8_NoPartialDocument ==
    /\ result = "Some" =>
         /\ Last(events).type = "StreamEnd"
         /\ pos = Len(events) - 1
         /\ OpenContainers = 0
    /\ (events # << >> /\ Last(events).type \in {"Err", "None"}) => result = "None"

\* the source stopped two containers deep after a container had been put in root
C8_Witness ==
    /\ result = "None"
    /\ Last(events).type \in {"Err", "None"}
    /\ OpenContainers = 2
    /\ root # << >>

\* map holds each inserted key once, with the node of its last insert call
LastInsertWins(map, inserts) ==
    /\ DOMAIN map = {inserts[n].key : n \in 1..Len(inserts)}
    /\ \A x \in DOMAIN map :
         map[x] = inserts[Max({n \in 1..Len(inserts) : inserts[n].key = x})].node

\* C9: a Map holds each key once, and its value is the node of the last
\* entry produced for that key, whatever kinds of node the entries were.
C9_LastWriteWins ==
    /\ built.node.kind = "Map" => LastInsertWins(built.node.map, built.inserts)
    /\ \A i \in 1..Len(stack) :
         stack[i].fn = "map" => LastInsertWins(stack[i].map, stack[i].inserts)

\* a returned Document with a map that was given one key twice, with nodes of
\* different kinds
C9_Witness ==
    /\ result = "Some"
    /\ built.node.kind = "Map"
    /\ \E n, m \in 1..Len(built.inserts) :
         /\ n < m
         /\ built.inserts[n].key = built.inserts[m].key
         /\ built.inserts[n].node.kind # built.inserts[m].node.kind
         /\ ~built.inserts[m].was_key

\* the loop peeks an event of type t in this step
Dispatched(t) == Len(events') = Len(events) + 1 /\ Last(events').type = t

\* the running builder is at a sequence-element or map-value position
AtNodePosition == result = "running" /\ stack # << >> /\ (Top.fn = "sequence" \/ ~Top.is_key)

\* C10: an alias event at a sequence-element or map-value position appends
\* or inserts the placeholder Alias(identifier), registered or not, and
\* leaves the anchor table as it was.
C10_AliasIsPlaceholder ==
    [][(AtNodePosition /\ Dispatched("Alias")) =>
          LET id == Last(events').anchor[1] IN
          /\ anchor' = anchor
          /\ registered' = registered
          /\ result' = "running"
          /\ Len(stack') = Len(stack)
          /\ IF Top.fn = "sequence"
             THEN Top'.root = Append(Top.root, Alias(id))
             ELSE /\ Top'.map[Top.key[1]] = Alias(id)
                  /\ \A x \in DOMAIN Top.map \ {Top.key[1]} : Top'.map[x] = Top.map[x]]_vars

\* an alias to a registered identifier has just been stored as a map value
C10_Witness ==
    /\ result = "running"
    /\ stack # << >>
    /\ Top.fn = "map"
    /\ events[pos].type = "Alias"
    /\ Top.inserts # << >>
    /\ ~Last(Top.inserts).was_key
    /\ Last(Top.inserts).node = Alias(events[pos].anchor[1])
    /\ events[pos].anchor[1] \in DOMAIN anchor

\* ------------------------------------------------------------------ C11
\* the event types the top-level loop of new has an arm for
TopLevelAccepted ==
    {"StreamStart", "DocumentStart", "DocumentEnd", "MappingStart", "SequenceStart", "StreamEnd"}

\* the event types the top-level loop of new has no arm for
TopLevelRejected == {"Scalar", "Alias", "SequenceEnd", "MappingEnd"}

\* C11: at the top level a stream-start, document-start, document-end,
\* mapping-start, sequence-start or stream-end event keeps the build going
\* (or ends it with a Document); a scalar, alias, sequence-end or mapping-end
\* event aborts the build at that event: the event is not consumed, nothing
\* is appended to the root or registered, and the aborted build stays
\* aborted, so it never returns a Document.
C11_TopLevelRejects ==
    [][/\ (InNew /\ Len(events') = Len(events) + 1) =>
            /\ Last(events').type \in TopLevelRejected =>
                 /\ result' = "panic"
                 /\ pos' = pos
                 /\ root' = root
                 /\ anchor' = anchor
            /\ Last(events').type \in TopLevelAccepted => result' \in {"running", "Some"}
            /\ result' \in {"running", "Some"} => Last(events').type \in TopLevelAccepted
       /\ result = "panic" => (result' = "panic" /\ root' = root)]_vars

\* a scalar event at top level, after a container was appended to the root,
\* has aborted the build
C11_Witness ==
    /\ result = "panic"
    /\ root # << >>
    /\ pos = Len(events) - 1
    /\ Last(events).type = "Scalar"
    /\ OpenContainers = 0

\* ------------------------------------------------------------------ C12
\* C12: indexing a node by a key always returns a node: the stored value
\* when the node is a Map containing the key, the None node otherwise (a Map
\* without the key, a Scalar, a Set, an Alias, the None node); the &str form
\* and the String form return the same node.
C12_IndexTotal ==
    call.fn = "index" =>
        /\ call.out_str = call.out_String
        /\ call.out_str.kind \in {"Scalar", "Map", "Set", "Alias", "None"}
        /\ (call.self.kind = "Map" /\ call.index \in DOMAIN call.self.map)
              => call.out_str = call.self.map[call.index]
        /\ ~(call.self.kind = "Map" /\ call.index \in DOMAIN call.self.map)
              => call.out_str = YamlNone

\* a Map of the Document was indexed by a key it lacks
C12_Witness ==
    /\ call.fn = "index"
    /\ call.self.kind = "Map"
    /\ call.self.map # EmptyMap
    /\ call.index \notin DOMAIN call.self.map
    /\ call.out_String = YamlNone

\* ------------------------------------------------------------------ C13
\* C13: as_vec returns the elements in order for a Set, an empty sequence
\* for the None node, and absence for a Scalar, a Map and an Alias.
C13_AsVec ==
    call.fn = "as_vec" =>
        /\ call.self.kind = "Set" => call.out = Some(call.self.set)
        /\ call.self.kind = "None" => call.out = Some(<< >>)
        /\ call.self.kind \in {"Scalar", "Map", "Alias"} => call.out = None

\* as_vec was called on the None node
C13_Witness ==
    /\ call.fn = "as_vec"
    /\ call.self = YamlNone
    /\ call.out = Some(<< >>)

\* ------------------------------------------------------------------ C14
\* the start events consumed so far whose container is not closed yet
UnmatchedStarts ==
    {s \in 1..pos :
        /\ IsStart(events[s])
        /\ \A e \in (s + 1)..pos : IsEnd(events[e]) => MatchingStart(events, e) # s}

\* the n-th of them, in stream order
UnmatchedStart(n) ==
    CHOOSE s \in UnmatchedStarts : Cardinality({t \in UnmatchedStarts : t <= s}) = n

\* between two steps: every event yielded so far is consumed while the build
\* runs, the last one is left unconsumed when it has stopped, and the running
\* builders are those of the open containers, each holding its start event
ConsumedInOrder ==
    /\ result = "running" => pos = Len(events)
    /\ result # "running" => pos = Len(events) - 1
    /\ result = "running" =>
         /\ Len(stack) = Cardinality(UnmatchedStarts)
         /\ \A n \in 1..Len(stack) :
              /\ stack[n].el = events[UnmatchedStart(n)]
              /\ stack[n].fn = (IF stack[n].el.type = "SequenceStart" THEN "sequence" ELSE "map")

\* one step of a running build dispatches the one event after the consumed
\* ones and consumes at most that event: a builder is entered by consuming
\* its start event, is left at the end event matching its start event, which
\* is consumed on return, and a scalar or alias is one event
ConsumesOne ==
    result = "running" =>
        /\ Len(events') = pos + 1
        /\ SubSeq(events', 1, pos) = events
        /\ pos' \in {pos, pos + 1}
        /\ pos' = pos => result' # "running"
        /\ result' = "running" =>
             LET e == events'[pos'] IN
             /\ IsStart(e) => (Len(stack') = Len(stack) + 1 /\ Last(stack').el = e)
             /\ e.type \in {"Scalar", "Alias"} => Len(stack') = Len(stack)
             /\ IsEnd(e) =>
                  /\ Len(stack') = Len(stack) - 1
                  /\ Top.el = events'[MatchingStart(events', pos')]
                  /\ (e.type = "SequenceEnd") = (Top.el.type = "SequenceStart")

\* C14: events are consumed in stream order, each once: a sequence or map
\* builder consumes its start event and the events of its children and is
\* left at its own matching end event, consumed as it returns; a scalar or
\* an alias consumes one event; no event is skipped or dispatched twice at
\* any depth.
C14_ConsumedInOrder == []ConsumedInOrder /\ [][ConsumesOne]_vars

\* a container nested in a container has returned at its own end event and
\* the outer builder goes on behind it
C14_Witness ==
    /\ result = "running"
    /\ Len(stack) = 1
    /\ pos >= 3
    /\ IsEnd(events[pos])
    /\ MatchingStart(events, pos) = pos - 1
    /\ IsStart(events[pos - 2])

\* ------------------------------------------------------------------ C15
\* the registration made when events[i] was consumed is that of a node
\* completed by events[i]: the scalar of a scalar event, the whole container
\* of an end event
RegisteredWhenComplete(r) ==
    LET i == r.at IN
    /\ i \in Completions(r.id)
    /\ events[i].type = "Scalar" => r.node = Scalar(events[i].value, events[i].tag)
    /\ IsEnd(events[i]) =>
         LET s == MatchingStart(events, i)
             shape == ShapeNode(events, s) IN
         /\ r.node.kind = (IF events[s].type = "SequenceStart" THEN "Set" ELSE "Map")
         /\ r.node.tag = events[s].tag
         /\ shape.st = "ok" => (shape.next = i + 1 /\ r.node = shape.node)

\* C15: an anchor is registered when the event that completes its node is
\* consumed and not before: a scalar's at the scalar event, a container's at
\* its end event, with the complete container as the entry; so while the
\* children of a container anchored A are processed, the table's entry for A
\* is the one of the last node anchored A completed before, or none.
C15_RegisteredWhenComplete ==
    /\ \A n \in 1..Len(registered) : RegisteredWhenComplete(registered[n])
    /\ \A n, m \in 1..Len(registered) : n < m => registered[n].at < registered[m].at
    /\ \A a \in AnchorIds :
         /\ \A i \in Completions(a) :
              \E n \in RegistrationsOf(a) : registered[n].at = i
         /\ Completions(a) = {} => a \notin DOMAIN anchor
         /\ Completions(a) # {} =>
              /\ a \in DOMAIN anchor
              /\ \E n \in RegistrationsOf(a) :
                   /\ registered[n].at = Max(Completions(a))
                   /\ registered[n].node = anchor[a]

\* the children of a second container anchored A are being processed while
\* the table still holds the first container anchored A, complete
C15_Witness ==
    /\ result = "running"
    /\ stack # << >>
    /\ Top.el.anchor = Some("A")
    /\ Top.root # << >>
    /\ "A" \in DOMAIN anchor
    /\ anchor["A"].kind = "Set"
    /\ anchor["A"].set # << >>

\* ------------------------------------------------------------------ C16
\* events[i] lies in one document and events[j] in a later one
InLaterDocument(i, j) ==
    \E s1, d, s2 \in 1..pos :
        /\ s1 < i /\ i < d /\ d < s2 /\ s2 < j
        /\ events[s1].type = "DocumentStart"
        /\ events[d].type = "DocumentEnd"
        /\ events[s2].type = "DocumentStart"

\* C16: the anchor table is scoped to one document: in a returned Document,
\* the entry that resolve_alias finds for the Alias node of an alias event
\* was not registered in an earlier document than the alias event's.
C16_Original ==
    result = "Some" =>
        \A j \in 1..pos :
            (events[j].type = "Alias" /\ resolve_alias(Alias(events[j].anchor[1])) # None) =>
                \A n \in RegistrationsOf(events[j].anchor[1]) :
                    n = Max(RegistrationsOf(events[j].anchor[1])) =>
                        ~InLaterDocument(registered[n].at, j)

\* ------------------------------------------------------------------ C17
\* the nodes held so far: in the root, in the builders running and in the
\* anchor table, at any depth
HeldNodes ==
    UNION {Nodes(root[i]) : i \in 1..Len(root)}
    \cup UNION {UNION {Nodes(stack[n].root[i]) : i \in 1..Len(stack[n].root)} :
                    n \in 1..Len(stack)}
    \cup UNION {UNION {Nodes(stack[n].map[x]) : x \in DOMAIN stack[n].map} :
                    n \in 1..Len(stack)}
    \cup UNION {Nodes(anchor[a]) : a \in DOMAIN anchor}

\* C17: parsing never writes the None node into the tree: no element of the
\* root, no element of a Set and no value of a Map is the None node, at any
\* depth, in a returned Document and in every builder on the way to it.
C17_NoneNeverWritten == YamlNone \notin HeldNodes

\* a returned Document holding, two levels down, an empty container and the
\* placeholder of an alias that was never registered
C17_Witness ==
    /\ result = "Some"
    /\ \E i \in 1..Len(root) :
         /\ Depth(root[i]) >= 2
         /\ \E node \in Nodes(root[i]) :
              node.kind = "Alias" /\ node.alias \notin DOMAIN anchor
         /\ \E node \in Nodes(root[i]) : node \in {Set(<< >>, None), Map(EmptyMap, None)}

\* ------------------------------------------------------------------ C18
\* the kinds of node that carry an anchor
Anchorable == {"Scalar", "Map", "Set"}

\* C18: during the build and in the finished Document every value of the
\* anchor table, and every value ever put into it, is a Scalar, a Map or a
\* Set, never an Alias and never the None node; so what resolve_alias
\* returns on success is not an Alias.
C18_AnchorsAreNodes ==
    /\ \A a \in DOMAIN anchor : anchor[a].kind \in Anchorable
    /\ \A n \in 1..Len(registered) : registered[n].node.kind \in Anchorable
    /\ resolved # None => resolved[1].kind \in Anchorable

\* resolve_alias has returned a Set that holds the placeholder of its own
\* anchor
C18_Witness ==
    /\ asked.kind = "Alias"
    /\ resolved # None
    /\ resolved[1].kind = "Set"
    /\ \E i \in 1..Len(resolved[1].set) : resolved[1].set[i] = asked

\* ------------------------------------------------------------------ C19
\* one iteration of the top-level, sequence or map loop consumes an event
\* or ends the build
ConsumesOrLeaves == result = "running" => (pos' = pos + 1 \/ result' # "running")

\* C19: for every finite event stream, well-formed or not, new eventually
\* finishes (a Document, absence or a fatal abort), because every loop
\* iteration consumes an event or leaves the loop.
C19_Terminates == [][ConsumesOrLeaves]_vars /\ <>(result # "running")

\* the build has finished after consuming every event of a source that ran
\* out inside an open container
C19_Witness ==
    /\ result = "None"
    /\ Last(events) = NoEvent
    /\ pos = Len(source.script) + MaxEvents
    /\ OpenContainers > 0

====
